---------------------------- MODULE Spec2Model ----------------------------
(***************************************************************************)
(* State-machine model of the Ansible module orion_node.py: the lifecycle  *)
(* dispatcher run_module and its handlers add_node, remove_node,           *)
(* remanage_node, unmanage_node, mute_node and unmute_node, run against a  *)
(* SolarWinds Orion inventory reached through the SWIS client.             *)
(*                                                                         *)
(* One invocation of the module is: RunModule (argument handling and the   *)
(* connection probe), then the handler the dispatcher selects, then        *)
(* ModuleExit.  The inventory persists between invocations.                *)
(***************************************************************************)
EXTENDS Integers, Sequences, FiniteSets, TLC

(***************************************************************************)
(* Bounds of the model.                                                    *)
(***************************************************************************)
\* Wall-clock readings and requested window starts range over 0..MaxClock
\* seconds; window ends over Day + (0..MaxClock).
MaxClock == 1
\* The platform's SuppressionMode ranges over 0..MaxMode.
MaxMode == 2
\* A discovery batch holds 0..MaxVolumes volumes that the filters can match.
MaxVolumes == 51
\* The discovered-nodes join selects 0..MaxDiscovered rows.
MaxDiscovered == 2
\* At most MaxNullUri of the volumes have no Uri; it is one of the first
\* MaxNullUri.
MaxNullUri == 1

\* The most volumes of the node in a batch that also holds a look-alike's
MaxLookAlike == 1

(***************************************************************************)
(* Program constants.                                                      *)
(***************************************************************************)
\* timedelta(days=1), in seconds
Day == 86400

(***************************************************************************)
(* Date-time text and datetime objects.                                    *)
(*                                                                         *)
(* A date-time text is [wall, tz]: the wall-clock reading in seconds and   *)
(* the way the zone is written: "" (no zone: a naive time), "Z", "+00:00"  *)
(* or "+01:00".  An absent text (Python's None) has tz = "None".            *)
(* A datetime object is [wall, aware, off]: off is its UTC offset in       *)
(* seconds, meaningful when aware.                                         *)
(***************************************************************************)
NoneText == [wall |-> 0, tz |-> "None"]

Text(w, z) == [wall |-> w, tz |-> z]

\* Python truthiness of an optional text parameter: `if unmanage_from:`
Truthy(s) == s.tz # "None"

\* datetime.fromisoformat (Python 3.11+: a trailing Z is read as UTC)
fromisoformat(s) ==
    [wall |-> s.wall,
     aware |-> s.tz # "",
     off |-> IF s.tz = "+01:00" THEN 3600 ELSE 0]

\* dateutil.parser.parse of the text the platform reports
parse(s) ==
    [wall |-> s.wall,
     aware |-> s.tz # "",
     off |-> IF s.tz = "+01:00" THEN 3600 ELSE 0]

\* datetime.isoformat(): a naive datetime prints no zone, an aware one prints
\* its offset as +HH:MM (never as Z)
isoformat(d) ==
    [wall |-> d.wall,
     tz |-> IF ~d.aware THEN ""
            ELSE IF d.off = 0 THEN "+00:00" ELSE "+01:00"]

\* datetime.now(timezone.utc)
now_utc(clock) == [wall |-> clock, aware |-> TRUE, off |-> 0]

\* dt + timedelta(days=1)
plus_one_day(d) == [d EXCEPT !.wall = d.wall + Day]

\* dt.astimezone(timezone.utc): a naive datetime is taken as local time; the
\* controller's local zone is UTC here
astimezone_utc(d) ==
    [wall |-> IF d.aware THEN d.wall - d.off ELSE d.wall,
     aware |-> TRUE,
     off |-> 0]

\* str(dt.astimezone(timezone.utc)).replace('+00:00', 'Z'): the text sent to
\* the platform
utc_z(d) == Text(astimezone_utc(d).wall, "Z")

(***************************************************************************)
(* State.                                                                  *)
(***************************************************************************)
VARIABLES
    orionNodes,    \* platform: the Orion.Nodes rows (none, or the target node)
    suppression,   \* platform: the node's alert suppression state
    pc,            \* position of the module process
    params,        \* module.params of the running invocation
    now,           \* the clock reading a defaulted window bound was taken from
    node,          \* the handler's `node` dict, as _get_node returned it
    result,        \* what the invocation returned: exit_json, fail_json, ...
    calls,         \* the remote calls the invocation issued after the probe
    ran,           \* the handler the dispatcher called, "" when none
    prev,          \* on a re-run with the same arguments: the run before
    orionVolumes,  \* the platform's Orion.Volumes rows of the discovered node
    props,         \* add_node: the profile _validate_fields returned
    changed,       \* add_node: its `changed` local
    discovery_iter,    \* add_node: status queries answered so far
    sleeps,            \* add_node: time.sleep calls made by the polling loop
    response,          \* add_node: the answer to the query it made last
    status_res,        \* add_node: the answer to the status query it made last
    batch_id,          \* add_node: discovery_log['BatchID']
    discovered_node,   \* add_node: the record the node was resolved to
    volumes_to_remove, \* add_node: the matched volume entries
    vol_i,             \* add_node: position of the removal loop (1-based)
    deleted,           \* add_node: the volumes submitted for deletion, in order
    key_i              \* add_node: position of the custom property loop

\* The locals of add_node
addLocals ==
    <<props, changed, discovery_iter, sleeps, status_res, response, batch_id, discovered_node,
      volumes_to_remove, vol_i, deleted, key_i>>

vars ==
    <<orionNodes, suppression, pc, params, now, node, result, calls, ran, prev,
      orionVolumes, props, changed, discovery_iter, sleeps, status_res, response, batch_id,
      discovered_node, volumes_to_remove, vol_i, deleted, key_i>>

\* An absent plain parameter (Python's None)
None == "None"

\* A name is the tuple of its dot-separated labels: what str.split('.') makes
\* of it.  The empty string is the one empty label, an absent node_name
\* (Python's None) the empty tuple.
NoName == << >>
EmptyName == <<"">>
ShortName == <<"host1">>
FullName == <<"host1", "example", "com">>

\* {}: the empty dict _get_node returns when the lookup finds nothing
EmptyDict == [k \in {} |-> TRUE]

\* Mutant: every node dict is taken for an empty one
IsEmpty_whatever_it_holds(d) == TRUE

\* `if node:` / `if not node:`
IsEmpty(d) == DOMAIN d = {}

\* The handler's `node` before _get_node has returned (and for good when it
\* raised or failed): the name is not bound
Unbound == [unbound |-> TRUE]

(***************************************************************************)
(* The platform (the remote inventory behind the SWIS client).             *)
(***************************************************************************)
\* The zone the platform writes on the date-times it reports
PlatformZone == "Z"

\* The Orion.Nodes row of the target node
NodeRow(unmanaged, from, until) ==
    [NodeID |-> "1", IPAddress |-> "10.0.0.5", Caption |-> ShortName,
     DNS |-> FullName, Unmanaged |-> unmanaged,
     UnManageFrom |-> from, UnManageUntil |-> until,
     Uri |-> "swis://Orion.Nodes/NodeID=1"]

NodeRows ==
    {NodeRow(u, Text(f, PlatformZone), Text(Day + t, PlatformZone)) :
        u \in BOOLEAN, f \in 0..MaxClock, t \in 0..MaxClock}

\* What GetAlertSuppressionState reports of a node that is not suppressed
NotSuppressed ==
    [SuppressionMode |-> 0, SuppressedFrom |-> NoneText, SuppressedUntil |-> NoneText]

\* What it can report: not suppressed (mode 0, no bounds), or suppressed in
\* one of the other modes with the bounds of the suppression
SuppressionStates ==
    {NotSuppressed}
    \cup [SuppressionMode : 1..MaxMode,
          SuppressedFrom : {Text(f, PlatformZone) : f \in 0..MaxClock},
          SuppressedUntil : {Text(Day + t, PlatformZone) : t \in 0..MaxClock}]

(***************************************************************************)
(* Requests: the arguments of one invocation.                              *)
(***************************************************************************)
\* argument_spec 'state' choices
StateChoices == {"present", "absent", "remanaged", "unmanaged", "muted", "unmuted"}

\* argument_spec: 'state' has 'default': 'managed'
StateDefault == "managed"

\* The zones a caller writes on unmanage_from / unmanage_until
RequestZones == {"", "Z", "+00:00"}

\* The ways a caller names the target: by id, by address, by name, not at
\* all, or by an id that is not the target's together with its address
Identities ==
    { [node_id |-> "1", ip_address |-> None, node_name |-> NoName],
      [node_id |-> None, ip_address |-> "10.0.0.5", node_name |-> NoName],
      [node_id |-> None, ip_address |-> None, node_name |-> FullName],
      [node_id |-> None, ip_address |-> None, node_name |-> NoName],
      [node_id |-> "2", ip_address |-> "10.0.0.5", node_name |-> NoName] }

\* unmanage_from / unmanage_until: each given or omitted, written in one zone
Windows ==
    {[from |-> NoneText, until |-> NoneText]}
    \cup {[from |-> Text(f, z), until |-> NoneText] :
            f \in 0..MaxClock, z \in RequestZones}
    \cup {[from |-> NoneText, until |-> Text(Day + t, z)] :
            t \in 0..MaxClock, z \in RequestZones}
    \cup {[from |-> Text(f, z), until |-> Text(Day + t, z)] :
            f \in 0..MaxClock, t \in 0..MaxClock, z \in RequestZones}

Request(state, id, w) ==
    [state |-> state,
     node_id |-> id.node_id, ip_address |-> id.ip_address,
     node_name |-> id.node_name,
     unmanage_from |-> w.from, unmanage_until |-> w.until]

NoWindow == [from |-> NoneText, until |-> NoneText]

\* What the module is asked in the lifecycle runs (state = None: not
\* supplied): every state but present for every way of naming the target,
\* and unmanaged and muted with every window for the target named by name
LifecycleRequests ==
    {Request(st, id, NoWindow) :
        st \in (StateChoices \ {"present"}) \cup {None}, id \in Identities}
    \cup {Request(st, [node_id |-> None, ip_address |-> None,
                       node_name |-> FullName], w) :
        st \in {"unmanaged", "muted"}, w \in Windows}

NoParams == Request(None, [node_id |-> None, ip_address |-> None, node_name |-> NoName],
                    NoWindow)

(***************************************************************************)
(* Results.                                                                *)
(***************************************************************************)
\* kind: "exit_json", "fail_json", "exception" (an error no handler caught:
\* the process dies with a traceback and no result), "none" (run_module
\* returned without a result), "" (still running).  changed is what the
\* result carries, False when the call passes none.
Result(kind, chg, skipped, msg) ==
    [kind |-> kind, changed |-> chg, skipped |-> skipped, msg |-> msg]

NoResult == Result("", FALSE, FALSE, "")

NoPrev == [result |-> NoResult, calls |-> << >>]

(***************************************************************************)
(* Handler outcomes.  A handler is an operator from the arguments and the  *)
(* platform's state to the set of its possible outcomes, one per way the   *)
(* remote calls can answer: the result returned, the handler's node dict,  *)
(* the remote calls issued, the clock reading a defaulted window bound was *)
(* computed from (0 when none was), and the platform's state afterwards.   *)
(***************************************************************************)
Out(res, n, c, clk, rows, sup) ==
    [result |-> res, node |-> n, calls |-> c, now |-> clk,
     orionNodes |-> rows, suppression |-> sup]

\* `node['changed'] = ...`: the handler writes the key into its node dict
\* before it exits
WithChanged(n, chg) == [changed |-> chg] @@ n

(***************************************************************************)
(* Node Lookup: _get_node                                                  *)
(***************************************************************************)
\* The rows the WHERE clause of the query selects: by NodeID when node_id is
\* given, else by IPAddress, else by Caption or DNS
NodeQuery(p, rows) ==
    IF p.node_id # None
    THEN SelectSeq(rows, LAMBDA r : r.NodeID = p.node_id)
    ELSE IF p.ip_address # None
    THEN SelectSeq(rows, LAMBDA r : r.IPAddress = p.ip_address)
    ELSE SelectSeq(rows, LAMBDA r : r.Caption = p.node_name \/ r.DNS = p.node_name)

\* The node dict built from the first row; {} when there is none.  The query
\* selects no DNS column, so no dnsname is set.
NodeDict(results) ==
    IF results = << >>
    THEN EmptyDict
    ELSE [nodeid |-> results[1].NodeID,
          caption |-> results[1].Caption,
          netobjectid |-> <<"N:", results[1].NodeID>>,
          unmanaged |-> results[1].Unmanaged,
          unmanagefrom |-> isoformat(parse(results[1].UnManageFrom)),
          unmanageuntil |-> isoformat(parse(results[1].UnManageUntil)),
          uri |-> results[1].Uri]

\* _get_node: fail_json when no identifier is given; the query may raise
\* (nothing catches it); else the node dict
_get_node(p, rows) ==
    IF p.node_id = None /\ p.ip_address = None /\ p.node_name = NoName
    THEN {[kind |-> "fail_json", node |-> Unbound, calls |-> << >>,
           result |-> Result("fail_json", FALSE, FALSE,
                             "You must provide either node_id, ip_address, or node_name")]}
    ELSE {[kind |-> "exception", node |-> Unbound,
           calls |-> <<"query Orion.Nodes">>,
           result |-> Result("exception", FALSE, FALSE, "")],
          [kind |-> "ok", node |-> NodeDict(NodeQuery(p, rows)),
           calls |-> <<"query Orion.Nodes">>,
           result |-> NoResult]}

(***************************************************************************)
(* remove_node                                                             *)
(***************************************************************************)
\* Mutant: a missing node is an error for remove as it is for remanage
remove_node_not_found_fatal == Result("fail_json", FALSE, TRUE, "Node not found")

\* `if not node: module.exit_json(changed=False)`
remove_node_not_found == Result("exit_json", FALSE, FALSE, "")

remove_node(p, rows, sup) ==
    UNION {
        IF lk.kind # "ok"
        THEN {Out(lk.result, lk.node, lk.calls, 0, rows, sup)}
        ELSE IF IsEmpty(lk.node)
        THEN {Out(remove_node_not_found, lk.node, lk.calls, 0, rows, sup)}
        ELSE { \* __SWIS__.delete(node['uri']) succeeded: node['changed'] =
               \* True; exit_json(**node)
               Out(Result("exit_json", TRUE, FALSE, ""), WithChanged(lk.node, TRUE),
                   Append(lk.calls, "delete node"), 0,
                   SelectSeq(rows, LAMBDA r : r.Uri # lk.node.uri), NotSuppressed),
               \* it raised
               Out(Result("fail_json", FALSE, FALSE, "Error removing node"), lk.node,
                   Append(lk.calls, "delete node"), 0, rows, sup) }
        : lk \in _get_node(p, rows) }

(***************************************************************************)
(* remanage_node                                                           *)
(***************************************************************************)
\* The platform's Remanage verb
Remanage(rows, netobjectid) ==
    [i \in DOMAIN rows |->
        IF <<"N:", rows[i].NodeID>> = netobjectid
        THEN [rows[i] EXCEPT !.Unmanaged = FALSE]
        ELSE rows[i]]

\* `if not node: module.fail_json(skipped=True, msg='Node not found')`
remanage_node_not_found == Result("fail_json", FALSE, TRUE, "Node not found")

\* Mutant: the unmanaged test is dropped
NotUnmanaged_dropped(n) == FALSE

\* `elif not node['unmanaged']:`
NotUnmanaged(n) == ~n.unmanaged

remanage_node(p, rows, sup) ==
    UNION {
        IF lk.kind # "ok"
        THEN {Out(lk.result, lk.node, lk.calls, 0, rows, sup)}
        ELSE IF IsEmpty(lk.node)
        THEN {Out(remanage_node_not_found, lk.node, lk.calls, 0, rows, sup)}
        ELSE IF NotUnmanaged(lk.node)
        THEN {Out(Result("fail_json", FALSE, FALSE, "Node is not currently unmanaged"),
                  lk.node, lk.calls, 0, rows, sup)}
        ELSE { Out(Result("exit_json", TRUE, FALSE, "has been remanaged"), lk.node,
                   Append(lk.calls, "invoke Remanage"), 0,
                   Remanage(rows, lk.node.netobjectid), sup),
               Out(Result("fail_json", FALSE, FALSE, "to_native(e)"), lk.node,
                   Append(lk.calls, "invoke Remanage"), 0, rows, sup) }
        : lk \in _get_node(p, rows) }

(***************************************************************************)
(* The requested window: unmanage_node and mute_node                       *)
(***************************************************************************)
\* unmanage_from_dt: the parsed argument, or now
unmanage_from_dt(p, clk) ==
    IF Truthy(p.unmanage_from)
    THEN fromisoformat(p.unmanage_from)
    ELSE now_utc(clk)

\* unmanage_until_dt: the parsed argument, or now + 1 day
unmanage_until_dt(p, clk) ==
    IF Truthy(p.unmanage_until)
    THEN fromisoformat(p.unmanage_until)
    ELSE plus_one_day(now_utc(clk))

\* The readings of datetime.now that matter to the window: any when a bound
\* is defaulted; when both bounds are given the reading is not used
Clock(p) ==
    IF Truthy(p.unmanage_from) /\ Truthy(p.unmanage_until) THEN {0} ELSE 0..MaxClock

(***************************************************************************)
(* unmanage_node                                                           *)
(***************************************************************************)
\* Mutant: only the start of the window is compared
AlreadyUnmanaged_from_only(n, from_dt, until_dt) ==
    /\ n.unmanaged
    /\ isoformat(from_dt) = n.unmanagefrom

\* The no-op test: the node is unmanaged and both bounds print the same
AlreadyUnmanaged(n, from_dt, until_dt) ==
    /\ n.unmanaged
    /\ isoformat(from_dt) = n.unmanagefrom
    /\ isoformat(until_dt) = n.unmanageuntil

\* The platform's Unmanage verb with absolute times: it stores the window;
\* whether it reports the node Unmanaged at once is the platform's decision
Unmanage(rows, netobjectid, from, until, unmanaged) ==
    [i \in DOMAIN rows |->
        IF <<"N:", rows[i].NodeID>> = netobjectid
        THEN [rows[i] EXCEPT !.Unmanaged = unmanaged,
                             !.UnManageFrom = Text(from.wall, PlatformZone),
                             !.UnManageUntil = Text(until.wall, PlatformZone)]
        ELSE rows[i]]

\* Mutant: a missing node is a skip for unmanage as it is for mute
unmanage_node_not_found_skip == Result("exit_json", FALSE, TRUE, "Node not found")

\* `if not node: module.fail_json(skipped=True, msg='Node not found')`
unmanage_node_not_found == Result("fail_json", FALSE, TRUE, "Node not found")

unmanage_node(p, rows, sup) ==
    UNION {
        IF lk.kind # "ok"
        THEN {Out(lk.result, lk.node, lk.calls, 0, rows, sup)}
        ELSE IF IsEmpty(lk.node)
        THEN {Out(unmanage_node_not_found, lk.node, lk.calls, 0, rows, sup)}
        ELSE UNION {
            LET from_dt == unmanage_from_dt(p, clk)
                until_dt == unmanage_until_dt(p, clk)
            IN  IF AlreadyUnmanaged(lk.node, from_dt, until_dt)
                THEN {Out(Result("exit_json", FALSE, FALSE, ""),
                          lk.node, lk.calls, clk, rows, sup)}
                ELSE { Out(Result("exit_json", TRUE, FALSE, "will be unmanaged"),
                           lk.node, Append(lk.calls, "invoke Unmanage"), clk,
                           Unmanage(rows, lk.node.netobjectid,
                                    utc_z(from_dt), utc_z(until_dt), u),
                           sup) : u \in BOOLEAN }
                     \cup
                     { Out(Result("fail_json", FALSE, FALSE, "Failed to unmanage"),
                           lk.node, Append(lk.calls, "invoke Unmanage"), clk,
                           rows, sup) }
            : clk \in Clock(p) }
        : lk \in _get_node(p, rows) }

(***************************************************************************)
(* mute_node                                                               *)
(***************************************************************************)
\* dt.astimezone(): the same instant in the controller's local zone (UTC)
astimezone_local(d) == astimezone_utc(d)

\* The no-op test: the platform's reported bounds against the raw arguments
\* (the argument is None when it was omitted)
AlreadyMuted(suppressed, p) ==
    /\ suppressed.SuppressedFrom = p.unmanage_from
    /\ suppressed.SuppressedUntil = p.unmanage_until

\* The platform's SuppressAlerts verb: it stores the window; the mode it
\* then reports (suppressed now, or scheduled) is the platform's decision
SuppressAlerts(from, until, mode) ==
    [SuppressionMode |-> mode,
     SuppressedFrom |-> Text(from.wall, PlatformZone),
     SuppressedUntil |-> Text(until.wall, PlatformZone)]

\* `if not node: module.exit_json(skipped=True, msg='Node not found')`
mute_node_not_found == Result("exit_json", FALSE, TRUE, "Node not found")

mute_node(p, rows, sup) ==
    UNION {
        IF lk.kind # "ok"
        THEN {Out(lk.result, lk.node, lk.calls, 0, rows, sup)}
        ELSE IF IsEmpty(lk.node)
        THEN {Out(mute_node_not_found, lk.node, lk.calls, 0, rows, sup)}
        ELSE UNION {
            LET from_dt == astimezone_local(unmanage_from_dt(p, clk))
                until_dt == astimezone_local(unmanage_until_dt(p, clk))
                asked == Append(lk.calls, "invoke GetAlertSuppressionState")
            IN  \* GetAlertSuppressionState raised: nothing catches it
                { Out(Result("exception", FALSE, FALSE, ""), lk.node, asked, clk, rows, sup) }
                \cup
                ( IF AlreadyMuted(sup, p)
                  THEN {Out(Result("exit_json", FALSE, FALSE, ""),
                            WithChanged(lk.node, FALSE), asked, clk, rows, sup)}
                  ELSE { Out(Result("exit_json", TRUE, FALSE, "will be muted"),
                             lk.node, Append(asked, "invoke SuppressAlerts"), clk, rows,
                             SuppressAlerts(utc_z(from_dt), utc_z(until_dt), m))
                         : m \in 1..MaxMode }
                       \cup
                       { Out(Result("fail_json", FALSE, FALSE, "Failed to mute"),
                             lk.node, Append(asked, "invoke SuppressAlerts"), clk,
                             rows, sup) } )
            : clk \in Clock(p) }
        : lk \in _get_node(p, rows) }

(***************************************************************************)
(* unmute_node                                                             *)
(***************************************************************************)
\* Mutant: only mode 1 counts as suppressed
NotMuted_but_mode_1(suppressed) == suppressed.SuppressionMode # 1

\* The no-op test: mode 0 is "not suppressed"
NotMuted(suppressed) == suppressed.SuppressionMode = 0

\* `if not node: module.exit_json(skipped=True, msg='Node not found')`
unmute_node_not_found == Result("exit_json", FALSE, TRUE, "Node not found")

unmute_node(p, rows, sup) ==
    UNION {
        IF lk.kind # "ok"
        THEN {Out(lk.result, lk.node, lk.calls, 0, rows, sup)}
        ELSE IF IsEmpty(lk.node)
        THEN {Out(unmute_node_not_found, lk.node, lk.calls, 0, rows, sup)}
        ELSE LET asked == Append(lk.calls, "invoke GetAlertSuppressionState")
             IN  { Out(Result("exception", FALSE, FALSE, ""), lk.node, asked, 0, rows, sup) }
                 \cup
                 ( IF NotMuted(sup)
                   THEN {Out(Result("exit_json", FALSE, FALSE, ""),
                             WithChanged(lk.node, FALSE), asked, 0, rows, sup)}
                   ELSE { \* ResumeAlerts answered
                          Out(Result("exit_json", TRUE, FALSE, "has been unmuted"),
                              lk.node, Append(asked, "invoke ResumeAlerts"), 0,
                              rows, NotSuppressed),
                          \* ResumeAlerts raised: nothing catches it
                          Out(Result("exception", FALSE, FALSE, ""),
                              lk.node, Append(asked, "invoke ResumeAlerts"), 0,
                              rows, sup) } )
        : lk \in _get_node(p, rows) }

(***************************************************************************)
(* add_node: the platform's tables, the requests, the pure steps           *)
(***************************************************************************)
\* `not x` of a plain parameter: None and the empty string are false
Falsy(v) == v = None \/ v = ""

\* Orion.Credential WHERE Name = @credential_name
CredentialRows(name) == IF name = "cred1" THEN <<[ID |-> 7]>> ELSE << >>

\* Orion.Engines WHERE ServerName = @engine_name
EngineRows(name) ==
    IF name = "engineA" THEN <<[EngineID |-> 2]>>
    ELSE IF name = "engineB" THEN <<[EngineID |-> 3]>>
    ELSE << >>

\* argument_spec 'polling_method' choices
PollingMethods == {"external", "icmp", "snmp", "wmi", "agent"}

\* Mutant: the method's name is not put in capitals
upper_unchanged(m) == m

\* str.upper on a polling method
upper(m) ==
    CASE m = "external" -> "EXTERNAL"
      [] m = "icmp" -> "ICMP"
      [] m = "snmp" -> "SNMP"
      [] m = "wmi" -> "WMI"
      [] m = "agent" -> "AGENT"
      [] OTHER -> m

\* A volume filter {'regex': r}: r is written without metacharacters, as the
\* tuple of its pieces; a volume's label is such a tuple as well
VolumeFilter(r) == [regex |-> r]

\* The arguments of an add, all at their defaults but the target's address,
\* its name and the credential
BaseAdd ==
    [state |-> "present", node_id |-> None, ip_address |-> "10.0.0.5",
     node_name |-> FullName, unmanage_from |-> NoneText, unmanage_until |-> NoneText,
     polling_method |-> "snmp", polling_engine_name |-> None,
     discovery_polling_engine_name |-> None,
     snmp_version |-> "2c", snmp_port |-> 161, snmp_allow_64 |-> TRUE,
     credential_name |-> "cred1",
     volume_filters |-> << >>, custom_properties |-> << >>]

\* What the module is asked in the add runs.  custom_properties is the tuple
\* of the dict's keys, in the dict's order.
AddRequests ==
    \* the identifying and required fields, each in every shape
    { [BaseAdd EXCEPT !.ip_address = ip, !.node_name = nm, !.polling_method = m,
                      !.credential_name = cr] :
        ip \in {None, "", "10.0.0.5"}, nm \in {NoName, EmptyName, ShortName, FullName},
        m \in PollingMethods, cr \in {None, "cred1", "nocred"} }
    \cup
    \* ... the target named by its id alone
    { [BaseAdd EXCEPT !.node_id = "1", !.ip_address = None, !.node_name = nm] :
        nm \in {NoName, FullName} }
    \cup
    \* the polling engines
    { [BaseAdd EXCEPT !.polling_engine_name = pe, !.discovery_polling_engine_name = de] :
        pe \in {None, "engineA"}, de \in {None, "engineA", "engineB", "engineX"} }
    \cup
    \* the volume filters
    { [BaseAdd EXCEPT !.volume_filters = vf] :
        vf \in { <<VolumeFilter(<<"/", "tmp">>)>>,
                 <<VolumeFilter(<<"/">>), VolumeFilter(<<"/", "tmp">>)>> } }
    \cup
    \* the custom properties, of a polled and of an external node
    { [BaseAdd EXCEPT !.custom_properties = cp, !.polling_method = m] :
        cp \in {<<"Site">>, <<"Site", "Owner">>}, m \in {"snmp", "external"} }
    \cup
    \* a volume filter and a custom property together
    { [BaseAdd EXCEPT !.volume_filters = <<VolumeFilter(<<"/", "tmp">>)>>,
                      !.custom_properties = <<"Site">>] }

\* _get_polling_engine_id: the query raises or selects no row (next() raises
\* StopIteration): fail_json; else the first row's EngineID
_get_polling_engine_id(name) ==
    {[kind |-> "fail_json", id |-> 0]}
    \cup (IF EngineRows(name) = << >>
          THEN {}
          ELSE {[kind |-> "ok", id |-> EngineRows(name)[1].EngineID]})

\* What _validate_fields returns or how it ends
Validated(kind, pr, msg, c) ==
    [kind |-> kind, props |-> pr, calls |-> c,
     result |-> IF kind = "ok" THEN NoResult ELSE Result(kind, FALSE, FALSE, msg)]

\* The engine part of _validate_fields, on the profile built so far: the
\* polling engine is looked up when its name is given, the discovery engine
\* when its name differs from the polling engine's, be it None
ValidateEngines(p, pr) ==
    LET first == IF ~Falsy(p.polling_engine_name)
                 THEN <<"query Orion.Engines">> ELSE << >>
        second == IF p.discovery_polling_engine_name # p.polling_engine_name
                  THEN <<"query Orion.Engines">> ELSE << >>
    IN  UNION {
            IF e.kind # "ok"
            THEN {Validated("fail_json", Unbound, "Failed to query polling engines",
                            first)}
            ELSE UNION {
                IF d.kind # "ok"
                THEN {Validated("fail_json", Unbound, "Failed to query polling engines",
                                first \o second)}
                ELSE LET full == pr @@ [EngineID |-> e.id, DiscoveryEngineID |-> d.id]
                     IN  IF p.state = "present" /\ full.Caption = EmptyName
                         THEN {Validated("fail_json", Unbound, "Node name is required",
                                         first \o second)}
                         ELSE {Validated("ok", full, "", first \o second)}
                : d \in (IF p.discovery_polling_engine_name # p.polling_engine_name
                         THEN _get_polling_engine_id(p.discovery_polling_engine_name)
                         ELSE {[kind |-> "ok", id |-> e.id]}) }
            : e \in (IF ~Falsy(p.polling_engine_name)
                     THEN _get_polling_engine_id(p.polling_engine_name)
                     ELSE {[kind |-> "ok", id |-> 1]}) }

\* _validate_fields: the profile of the new node, or the failure.  A
\* node_name of None has no split(): AttributeError, which nothing catches.
_validate_fields(p) ==
    IF p.node_name = NoName
    THEN {Validated("exception", Unbound, "", << >>)}
    ELSE LET named == [IPAddress |-> p.ip_address,
                       Caption |-> <<Head(p.node_name)>>,
                       ObjectSubType |-> upper(p.polling_method),
                       External |-> (p.polling_method = "external")]
             dotted == IF Len(p.node_name) > 1
                       THEN named @@ [DNS |-> p.node_name] ELSE named
             polled == IF dotted.ObjectSubType = "SNMP"
                       THEN dotted @@ [SNMPVersion |-> p.snmp_version,
                                       AgentPort |-> p.snmp_port,
                                       Allow64BitCounters |-> p.snmp_allow_64]
                       ELSE IF dotted.ObjectSubType = "EXTERNAL"
                       THEN [dotted EXCEPT !.ObjectSubType = "ICMP"]
                       ELSE dotted
         IN  IF Falsy(dotted.IPAddress)
             THEN {Validated("fail_json", Unbound, "IP Address is required", << >>)}
             ELSE IF ~dotted.External /\ dotted.Caption = EmptyName
             THEN {Validated("fail_json", Unbound, "Node name is required", << >>)}
             ELSE IF dotted.ObjectSubType = ""
             THEN {Validated("fail_json", Unbound, "Polling Method is required", << >>)}
             ELSE IF Falsy(p.credential_name)
             THEN {Validated("fail_json", Unbound, "A credential name is required", << >>)}
             ELSE ValidateEngines(p, polled)

\* DISCOVERY_STATUS_CHECK_RETRIES
DISCOVERY_STATUS_CHECK_RETRIES == 60

\* DISCOVERY_RETRY_SLEEP_SECS
DISCOVERY_RETRY_SLEEP_SECS == 3

\* The discovery job statuses: 0 Unknown, 1 InProgress, 2 Finished, 3 Error,
\* 4 NotScheduled, 5 Scheduled, 6 NotCompleted, 7 Canceling, 8 ReadyForImport
DiscoveryStatuses == 0..8

\* The status queries at which the platform is taken to report the job over
\* (Finished, or no row at all): the first two, and the last two before the
\* retries run out
FinishingQueries ==
    {1, 2, DISCOVERY_STATUS_CHECK_RETRIES - 1, DISCOVERY_STATUS_CHECK_RETRIES}

\* The Result codes a discovery log carries (the same enumeration), each as
\* the platform may serialise it: a number or its decimal text
ResultCodes == [repr : {"int", "str"}, n : 0..8]

\* int() of a serialised Result
int(v) == v.n

\* The Orion.DiscoveryLogs rows of a finished job
DiscoveryLogRows ==
    [Result : ResultCodes, ResultDescription : {"", "Finished"},
     ErrorMessage : {None, "timed out"}, BatchID : {None, "batch-1"}]

\* Mutant: Error (3) is taken for a success
DiscoveryFailed_without_3(log) == int(log.Result) \in {0, 6, 7}

\* `int(discovery_log['Result']) in [0, 3, 6, 7]`
DiscoveryFailed(log) == int(log.Result) \in {0, 3, 6, 7}

\* A row of the discovered-nodes join, and the Orion.Nodes row behind it
DiscoveredRow(id, caption) ==
    [NodeID |-> id, Caption |-> caption, Uri |-> <<"swis://Orion.Nodes", id>>]

ImportedRow(id, caption) ==
    [NodeID |-> id, IPAddress |-> IF id = "1" THEN "10.0.0.5" ELSE "10.0.0.6",
     Caption |-> caption, DNS |-> EmptyName, Unmanaged |-> FALSE,
     UnManageFrom |-> Text(0, PlatformZone), UnManageUntil |-> Text(0, PlatformZone),
     Uri |-> <<"swis://Orion.Nodes", id>>]

\* What the join can select: no row, the target under one of the captions
\* discovery gives it, or the target followed by other nodes
DiscoveredNodes ==
    {<< >>}
    \cup {<<DiscoveredRow("1", c)>> \o [i \in 1..k |-> DiscoveredRow("2", <<"host2">>)] :
            c \in {ShortName, FullName}, k \in 0..(MaxDiscovered - 1)}

\* A text is the sequence of its pieces: words of several characters, and
\* single characters standing on their own
Characters == {".", "-", "x"}

\* str of a name: its labels with a '.' between them
RECURSIVE NameText(_)
NameText(name) ==
    IF Len(name) <= 1
    THEN name
    ELSE <<Head(name), ".">> \o NameText(Tail(name))

\* The text of a host whose name has '-' wherever the given one has '.'
LookAlike(text) == [i \in DOMAIN text |-> IF text[i] = "." THEN "-" ELSE text[i]]

\* The Orion.DiscoveryLogItems rows of a batch that found n volumes labelled
\* /tmp on the node named host: an interface, a volume of that label under
\* another name, a volume labelled C:, the n volumes and, when alike, a
\* volume of that label on the host of the look-alike name
DiscoveredObjects(n, host, alike) ==
    << [EntityType |-> "Orion.NPM.Interfaces",
        DisplayName |-> [host |-> NameText(host), label |-> <<"/", "tmp">>],
        NetObjectID |-> <<"I", 1>>],
       [EntityType |-> "Orion.Volumes",
        DisplayName |-> [host |-> <<"host2">>, label |-> <<"/", "tmp">>],
        NetObjectID |-> <<"V", 0>>],
       [EntityType |-> "Orion.Volumes",
        DisplayName |-> [host |-> NameText(host), label |-> <<"C:">>],
        NetObjectID |-> <<"V", n + 1>>] >>
    \o [i \in 1..n |-> [EntityType |-> "Orion.Volumes",
                        DisplayName |-> [host |-> NameText(host), label |-> <<"/", "tmp">>],
                        NetObjectID |-> <<"V", i>>]]
    \o (IF alike
        THEN << [EntityType |-> "Orion.Volumes",
                 DisplayName |-> [host |-> LookAlike(NameText(host)),
                                  label |-> <<"/", "tmp">>],
                 NetObjectID |-> <<"V", n + 2>>] >>
        ELSE << >>)

\* Whether a batch holds a volume of a look-alike host: either way when it
\* holds few volumes of the node
LookAlikes(n) == IF n <= MaxLookAlike THEN BOOLEAN ELSE {FALSE}

\* How many such volumes a batch is taken to hold: few, half the cap of 50
\* and one more, and the most there can be and one or two fewer
VolumeCounts ==
    {0, 1, 2, 25, 26} \cup {n \in 0..MaxVolumes : n >= MaxVolumes - 2}

\* The Orion.Volumes rows of those n volumes; the ones in nulls have no Uri
VolumeRows(n, nulls) ==
    {[NetObjectID |-> <<"V", i>>,
      Uri |-> IF i \in nulls THEN << >> ELSE <<"swis://Orion.Volumes", i>>] :
        i \in 1..n}

\* Which volumes can be without a Uri
NullUris(n) == {{}} \cup {{i} : i \in 1..(IF n < MaxNullUri THEN n ELSE MaxNullUri)}

IsPrefix(a, b) == Len(a) <= Len(b) /\ SubSeq(b, 1, Len(a)) = a

\* The name as a pattern against a text: the name is not escaped, so each
\* '.' of it stands for any one character, and every other piece for itself
MatchesName(pattern, text) ==
    /\ Len(text) = Len(pattern)
    /\ \A i \in DOMAIN pattern :
          IF pattern[i] = "."
          THEN text[i] \in Characters
          ELSE text[i] = pattern[i]

\* re.search("^{} - {}".format(node_name, vol_filter['regex']), DisplayName)
re_search(node_name, vol_filter, display_name) ==
    /\ MatchesName(NameText(node_name), display_name.host)
    /\ IsPrefix(vol_filter.regex, display_name.label)

\* The inner loop: the entry, once for every filter that matches it
RECURSIVE MatchesOf(_, _, _)
MatchesOf(entry, filters, node_name) ==
    IF filters = << >>
    THEN << >>
    ELSE (IF re_search(node_name, Head(filters), entry.DisplayName)
          THEN <<entry>> ELSE << >>)
         \o MatchesOf(entry, Tail(filters), node_name)

\* The outer loop: volumes_to_remove
RECURSIVE VolumesToRemove(_, _)
VolumesToRemove(entries, p) ==
    IF entries = << >>
    THEN << >>
    ELSE (IF Head(entries).EntityType = "Orion.Volumes"
          THEN MatchesOf(Head(entries), p.volume_filters, p.node_name)
          ELSE << >>)
         \o VolumesToRemove(Tail(entries), p)

\* Mutant: the cap refuses 50 as well
TooManyVolumes_from_50(volumes) == Len(volumes) >= 50

\* `if len(volumes_to_remove) > 50`
TooManyVolumes(volumes) == Len(volumes) > 50

(***************************************************************************)
(* run_module: argument handling, the connection probe, the dispatcher     *)
(***************************************************************************)
\* module.params['state'] once AnsibleModule has applied the default
StateParam(state) == IF state = None THEN StateDefault ELSE state

\* The if/elif chain of run_module: the handler that runs, "" when no branch
\* matches
Handler(state) ==
    IF state = "present" THEN "add_node"
    ELSE IF state = "absent" THEN "remove_node"
    ELSE IF state = "remanaged" THEN "remanage_node"
    ELSE IF state = "unmanaged" THEN "unmanage_node"
    ELSE IF state = "muted" THEN "mute_node"
    ELSE IF state = "unmuted" THEN "unmute_node"
    ELSE ""

\* No response examined yet
NoResponse == [of |-> ""]

\* add_node's locals before it has run
FreshLocals ==
    /\ props = Unbound
    /\ changed = FALSE
    /\ discovery_iter = 0
    /\ sleeps = 0
    /\ response = NoResponse
    /\ status_res = NoResponse
    /\ batch_id = None
    /\ discovered_node = Unbound
    /\ volumes_to_remove = << >>
    /\ vol_i = 0
    /\ deleted = << >>
    /\ key_i = 0

\* A new process starts with them fresh
ResetLocals ==
    /\ props' = Unbound
    /\ changed' = FALSE
    /\ discovery_iter' = 0
    /\ sleeps' = 0
    /\ response' = NoResponse
    /\ status_res' = NoResponse
    /\ batch_id' = None
    /\ discovered_node' = Unbound
    /\ volumes_to_remove' = << >>
    /\ vol_i' = 0
    /\ deleted' = << >>
    /\ key_i' = 0

\* The module starts with arguments p; pv is the run before when this is a
\* re-run.  It ends at once with fail_json when orionsdk is missing, when
\* the connection probe raises, or when AnsibleModule checks the (defaulted)
\* state against the choices and rejects it; otherwise the dispatcher is next.
Start(p, pv) ==
    /\ params' = [p EXCEPT !.state = StateParam(p.state)]
    /\ prev' = pv
    /\ now' = 0
    /\ node' = Unbound
    /\ calls' = << >>
    /\ ran' = ""
    /\ ResetLocals
    /\ UNCHANGED <<orionNodes, suppression, orionVolumes>>
    /\ \/ /\ pc' = "dispatch"
          /\ result' = NoResult
       \/ /\ pc' = "done"
          /\ result' = Result("fail_json", FALSE, FALSE, "orionsdk required for this module")
       \/ /\ pc' = "done"
          /\ result' = Result("fail_json", FALSE, FALSE, "Failed to query Orion")
       \/ /\ StateParam(p.state) \notin StateChoices
          /\ pc' = "done"
          /\ result' = Result("fail_json", FALSE, FALSE, "value of state must be one of")

RunModule ==
    /\ pc = "idle"
    /\ \E p \in LifecycleRequests : Start(p, NoPrev)

\* The same task is run again with the same arguments
Rerun ==
    /\ pc = "done"
    /\ prev = NoPrev
    /\ Start(params, [result |-> result, calls |-> calls])

\* The handler returned outcome o
Apply(o, handler) ==
    /\ pc' = "done"
    /\ ran' = handler
    /\ result' = o.result
    /\ node' = o.node
    /\ calls' = o.calls
    /\ now' = o.now
    /\ orionNodes' = o.orionNodes
    /\ suppression' = o.suppression
    /\ UNCHANGED <<params, prev, orionVolumes>>
    /\ UNCHANGED addLocals

RemoveNode ==
    /\ pc = "dispatch"
    /\ Handler(params.state) = "remove_node"
    /\ \E o \in remove_node(params, orionNodes, suppression) : Apply(o, "remove_node")

RemanageNode ==
    /\ pc = "dispatch"
    /\ Handler(params.state) = "remanage_node"
    /\ \E o \in remanage_node(params, orionNodes, suppression) : Apply(o, "remanage_node")

UnmanageNode ==
    /\ pc = "dispatch"
    /\ Handler(params.state) = "unmanage_node"
    /\ \E o \in unmanage_node(params, orionNodes, suppression) : Apply(o, "unmanage_node")

MuteNode ==
    /\ pc = "dispatch"
    /\ Handler(params.state) = "mute_node"
    /\ \E o \in mute_node(params, orionNodes, suppression) : Apply(o, "mute_node")

UnmuteNode ==
    /\ pc = "dispatch"
    /\ Handler(params.state) = "unmute_node"
    /\ \E o \in unmute_node(params, orionNodes, suppression) : Apply(o, "unmute_node")

\* No branch of the dispatcher matches: run_module returns, no result
NoHandler ==
    /\ pc = "dispatch"
    /\ Handler(params.state) = ""
    /\ pc' = "done"
    /\ result' = Result("none", FALSE, FALSE, "")
    /\ UNCHANGED <<orionNodes, suppression, params, now, node, calls, ran, prev>>
    /\ UNCHANGED <<orionVolumes, addLocals>>

\* The process ends
ModuleExit ==
    /\ pc = "done"
    /\ pc' = "idle"
    /\ params' = NoParams
    /\ now' = 0
    /\ node' = Unbound
    /\ result' = NoResult
    /\ calls' = << >>
    /\ ran' = ""
    /\ prev' = NoPrev
    /\ ResetLocals
    /\ UNCHANGED <<orionNodes, suppression, orionVolumes>>

(***************************************************************************)
(* The lifecycle specification: every state but present, against every     *)
(* state of the platform.                                                   *)
(***************************************************************************)
Init ==
    /\ orionNodes \in {<< >>} \cup {<<r>> : r \in NodeRows}
    /\ suppression \in SuppressionStates
    /\ orionNodes = << >> => suppression = NotSuppressed
    /\ pc = "idle"
    /\ params = NoParams
    /\ now = 0
    /\ node = Unbound
    /\ result = NoResult
    /\ calls = << >>
    /\ ran = ""
    /\ prev = NoPrev
    /\ orionVolumes = {}
    /\ FreshLocals

Next ==
    \/ RunModule
    \/ Rerun
    \/ RemoveNode
    \/ RemanageNode
    \/ UnmanageNode
    \/ MuteNode
    \/ UnmuteNode
    \/ NoHandler
    \/ ModuleExit

Spec == Init /\ [][Next]_vars

(***************************************************************************)
(* add_node, step by step: one action per remote call it makes.            *)
(***************************************************************************)
\* module.fail_json(msg=...): the process ends, the result is a failure
Fail(msg) ==
    /\ pc' = "done"
    /\ result' = Result("fail_json", FALSE, FALSE, msg)

\* An exception nothing catches: the process dies
Crash ==
    /\ pc' = "done"
    /\ result' = Result("exception", FALSE, FALSE, "")

\* The handler goes on to step l
Goto(l) ==
    /\ pc' = l
    /\ result' = NoResult

\* The remote call c is on record, once however often it is repeated
Once(c) == IF \E i \in DOMAIN calls : calls[i] = c THEN calls ELSE Append(calls, c)

RunAdd ==
    /\ pc = "idle"
    /\ \E p \in AddRequests : Start(p, NoPrev)

\* `node = _get_node(module); if node: module.exit_json(changed=False, ...)`
AddNode ==
    /\ pc = "dispatch"
    /\ Handler(params.state) = "add_node"
    /\ ran' = "add_node"
    /\ \E lk \in _get_node(params, orionNodes) :
          /\ node' = lk.node
          /\ calls' = lk.calls
          /\ IF lk.kind # "ok"
             THEN pc' = "done" /\ result' = lk.result
             ELSE IF ~IsEmpty(lk.node)
             THEN pc' = "done" /\ result' = Result("exit_json", FALSE, FALSE, "")
             ELSE Goto("validate")
    /\ UNCHANGED <<orionNodes, suppression, params, now, prev, orionVolumes>>
    /\ UNCHANGED addLocals

\* `props = _validate_fields(module)`
ValidateFields ==
    /\ pc = "validate"
    /\ \E v \in _validate_fields(params) :
          /\ props' = v.props
          /\ calls' = calls \o v.calls
          /\ result' = v.result
          /\ pc' = IF v.kind = "ok" THEN "credential" ELSE "done"
    /\ UNCHANGED <<orionNodes, suppression, params, now, node, ran, prev, orionVolumes>>
    /\ UNCHANGED <<changed, discovery_iter, sleeps, status_res, response, batch_id, discovered_node,
                   volumes_to_remove, vol_i, deleted, key_i>>

\* _get_credential_id: the query raises, or selects no row (next() raises
\* StopIteration): fail_json; else the handler goes on
GetCredentialId ==
    /\ pc = "credential"
    /\ calls' = Append(calls, "query Orion.Credential")
    /\ \/ Fail("Failed to query credentials")
       \/ /\ CredentialRows(params.credential_name) = << >>
          /\ Fail("Failed to query credential")
       \/ /\ CredentialRows(params.credential_name) # << >>
          /\ Goto("core_plugin")
    /\ UNCHANGED <<orionNodes, suppression, params, now, node, ran, prev, orionVolumes>>
    /\ UNCHANGED addLocals

CreateCorePluginConfiguration ==
    /\ pc = "core_plugin"
    /\ calls' = Append(calls, "invoke CreateCorePluginConfiguration")
    /\ \/ Fail("Failed to create core plugin configuration")
       \/ Goto("interfaces_plugin")
    /\ UNCHANGED <<orionNodes, suppression, params, now, node, ran, prev, orionVolumes>>
    /\ UNCHANGED addLocals

CreateInterfacesPluginConfiguration ==
    /\ pc = "interfaces_plugin"
    /\ calls' = Append(calls, "invoke CreateInterfacesPluginConfiguration")
    /\ \/ Fail("Failed to create interfaces plugin configuration")
       \/ Goto("start_discovery")
    /\ UNCHANGED <<orionNodes, suppression, params, now, node, ran, prev, orionVolumes>>
    /\ UNCHANGED addLocals

\* StartDiscovery: once it has answered, changed = True
StartDiscovery ==
    /\ pc = "start_discovery"
    /\ calls' = Append(calls, "invoke StartDiscovery")
    /\ \/ Fail("Failed to start node discovery") /\ changed' = changed
       \/ Goto("poll") /\ changed' = TRUE
    /\ discovery_iter' = 0
    /\ UNCHANGED <<orionNodes, suppression, params, now, node, ran, prev, orionVolumes>>
    /\ UNCHANGED <<props, sleeps, status_res, response, batch_id, discovered_node,
                   volumes_to_remove, vol_i, deleted, key_i>>

\* Mutant: a status answer without rows keeps the loop going
discovery_active_until_finished(results) ==
    IF Len(results) > 0 THEN results[1].Status # 2 ELSE TRUE

\* discovery_active after a status answer: false when its first row has
\* Status 2 and when it has no row
discovery_active(results) ==
    IF Len(results) > 0 THEN results[1].Status # 2 ELSE FALSE

\* Mutant: the count is tested with > and so lets one more query through
RetriesExhausted_one_late(iter) == iter > DISCOVERY_STATUS_CHECK_RETRIES

\* `if discovery_iter >= DISCOVERY_STATUS_CHECK_RETRIES`
RetriesExhausted(iter) == iter >= DISCOVERY_STATUS_CHECK_RETRIES

\* One round of `while discovery_active`: the status query, the test of its
\* answer, the count, the timeout test, the sleep
PollStatus ==
    /\ pc = "poll"
    /\ calls' = Once("query Orion.DiscoveryProfiles")
    /\ \/ /\ Fail("Failed to query node discovery status")
          /\ UNCHANGED <<discovery_iter, sleeps, status_res, response>>
       \/ \E results \in {<< >>} \cup {<<[Status |-> s]>> : s \in DiscoveryStatuses} :
             /\ ~discovery_active(results) => discovery_iter + 1 \in FinishingQueries
             /\ status_res' = [of |-> "Orion.DiscoveryProfiles", results |-> results]
             /\ response' = status_res'
             /\ discovery_iter' = discovery_iter + 1
             /\ IF RetriesExhausted(discovery_iter + 1)
                THEN /\ Fail("Timeout while waiting for node discovery job to terminate")
                     /\ sleeps' = sleeps
                ELSE /\ sleeps' = sleeps + 1
                     /\ Goto(IF discovery_active(results) THEN "poll" ELSE "read_log")
    /\ UNCHANGED <<orionNodes, suppression, params, now, node, ran, prev, orionVolumes>>
    /\ UNCHANGED <<props, changed, batch_id, discovered_node,
                   volumes_to_remove, vol_i, deleted, key_i>>

\* The discovery log is read and its Result classified.  `results[0]` of an
\* answer without rows is an IndexError nothing catches.
ReadDiscoveryLog ==
    /\ pc = "read_log"
    /\ calls' = Append(calls, "query Orion.DiscoveryLogs")
    /\ \/ /\ Fail("Failed to query discovery logs")
          /\ UNCHANGED <<response, batch_id>>
       \/ /\ response' = [of |-> "Orion.DiscoveryLogs", results |-> << >>]
          /\ Crash
          /\ UNCHANGED batch_id
       \/ \E discovery_log \in DiscoveryLogRows :
             /\ response' = [of |-> "Orion.DiscoveryLogs", results |-> <<discovery_log>>]
             /\ IF DiscoveryFailed(discovery_log)
                THEN /\ Fail("Node discovery did not complete successfully")
                     /\ UNCHANGED batch_id
                ELSE /\ Goto("resolve")
                     /\ batch_id' = discovery_log.BatchID
    /\ UNCHANGED <<orionNodes, suppression, params, now, node, ran, prev, orionVolumes>>
    /\ UNCHANGED <<props, changed, discovery_iter, sleeps, status_res, discovered_node,
                   volumes_to_remove, vol_i, deleted, key_i>>

\* The discovered node is looked up: the first row of the join, whatever
\* follows it; no row is a failure.  The rows are rows of Orion.Nodes.
ResolveNode ==
    /\ pc = "resolve"
    /\ calls' = Append(calls, "query Orion.DiscoveredNodes")
    /\ \/ /\ Fail("Failed to query discovered nodes")
          /\ UNCHANGED <<response, discovered_node, orionNodes>>
       \/ \E results \in DiscoveredNodes :
             /\ response' = [of |-> "Orion.DiscoveredNodes", results |-> results]
             /\ orionNodes' = [i \in DOMAIN results |->
                                  ImportedRow(results[i].NodeID, results[i].Caption)]
             /\ IF results = << >>
                THEN /\ Fail("Node not found in discovery results")
                     /\ UNCHANGED discovered_node
                ELSE /\ Goto("caption")
                     /\ discovered_node' = results[1]
    /\ UNCHANGED <<suppression, params, now, node, ran, prev, orionVolumes>>
    /\ UNCHANGED <<props, changed, discovery_iter, sleeps, status_res, batch_id,
                   volumes_to_remove, vol_i, deleted, key_i>>

\* `if discovered_node['Caption'] != props['Caption']`: the caption is set to
\* module.params['node_name']
CorrectCaption ==
    /\ pc = "caption"
    /\ IF discovered_node.Caption # props.Caption
       THEN /\ calls' = Append(calls, "update Caption")
            /\ \/ Fail("Failed to update node Caption") /\ UNCHANGED orionNodes
               \/ /\ Goto("objects")
                  /\ orionNodes' = [orionNodes EXCEPT ![1].Caption = params.node_name]
       ELSE /\ Goto("objects")
            /\ UNCHANGED <<calls, orionNodes>>
    /\ UNCHANGED <<suppression, params, now, node, ran, prev, orionVolumes>>
    /\ UNCHANGED addLocals

\* The items of the batch are read, the volumes the filters match collected
\* and their number tested against the cap
QueryDiscoveredObjects ==
    /\ pc = "objects"
    /\ calls' = Append(calls, "query Orion.DiscoveryLogItems")
    /\ \/ /\ Fail("Failed to query discovered objects")
          /\ UNCHANGED <<response, volumes_to_remove, vol_i, orionVolumes>>
       \/ \E n \in (IF batch_id = None THEN {0} ELSE VolumeCounts) :
          \E nulls \in NullUris(n), alike \in LookAlikes(n) :
             LET results == IF batch_id = None
                            THEN << >>
                            ELSE DiscoveredObjects(n, params.node_name, alike)
                 matched == VolumesToRemove(results, params)
             IN  /\ response' = [of |-> "Orion.DiscoveryLogItems", results |-> results]
                 /\ orionVolumes' = VolumeRows(n, nulls)
                 /\ volumes_to_remove' = matched
                 /\ IF TooManyVolumes(matched)
                    THEN /\ Fail("Too many volumes to remove - aborting for safety")
                         /\ vol_i' = vol_i
                    ELSE /\ Goto("volumes")
                         /\ vol_i' = 1
    /\ UNCHANGED <<orionNodes, suppression, params, now, node, ran, prev>>
    /\ UNCHANGED <<props, changed, discovery_iter, sleeps, status_res, batch_id, discovered_node,
                   deleted, key_i>>

\* One round of `for volume in volumes_to_remove`: the Uri is looked up
\* (`results[0]` of an answer without rows is an IndexError nothing catches)
\* and, when there is one, the volume deleted
RemoveVolume ==
    /\ pc = "volumes"
    /\ vol_i <= Len(volumes_to_remove)
    /\ LET volume == volumes_to_remove[vol_i]
           results == {row \in orionVolumes : row.NetObjectID = volume.NetObjectID}
           asked == Once("query Orion.Volumes")
           deleting == IF \E i \in DOMAIN asked : asked[i] = "delete volume"
                       THEN asked ELSE Append(asked, "delete volume")
       IN  \/ /\ Fail("Failed to query Uri for volume to remove")
              /\ calls' = asked
              /\ UNCHANGED <<response, vol_i, deleted, orionVolumes>>
           \/ /\ results = {}
              /\ response' = [of |-> "Orion.Volumes", results |-> << >>]
              /\ Crash
              /\ calls' = asked
              /\ UNCHANGED <<vol_i, deleted, orionVolumes>>
           \/ \E row \in results :
                 /\ response' = [of |-> "Orion.Volumes", results |-> <<row>>]
                 /\ IF row.Uri # << >>
                    THEN /\ calls' = deleting
                         /\ deleted' = Append(deleted, volume.NetObjectID)
                         /\ \/ /\ Fail("Failed to delete volume")
                               /\ UNCHANGED <<vol_i, orionVolumes>>
                            \/ /\ Goto("volumes")
                               /\ vol_i' = vol_i + 1
                               /\ orionVolumes' = orionVolumes \ {row}
                    ELSE /\ calls' = asked
                         /\ Goto("volumes")
                         /\ vol_i' = vol_i + 1
                         /\ UNCHANGED <<deleted, orionVolumes>>
    /\ UNCHANGED <<orionNodes, suppression, params, now, node, ran, prev>>
    /\ UNCHANGED <<props, changed, discovery_iter, sleeps, status_res, batch_id, discovered_node,
                   volumes_to_remove, key_i>>

\* Mutant: the DNS name is set first of all, before the caption is looked at
SetDNS_before_caption ==
    /\ pc = "caption"
    /\ "DNS" \in DOMAIN props
    /\ \A i \in DOMAIN calls : calls[i] # "update DNS"
    /\ calls' = Append(calls, "update DNS")
    /\ Goto("caption")
    /\ orionNodes' = [orionNodes EXCEPT ![1].DNS = props.DNS]
    /\ UNCHANGED <<suppression, params, now, node, ran, prev, orionVolumes>>
    /\ UNCHANGED addLocals

\* After the loop: `if 'DNS' in props` the node's DNS name is set
SetDNS ==
    /\ pc = "volumes"
    /\ vol_i > Len(volumes_to_remove)
    /\ IF "DNS" \in DOMAIN props
       THEN /\ calls' = Append(calls, "update DNS")
            /\ \/ Fail("Failed to set DNS name") /\ UNCHANGED <<orionNodes, key_i>>
               \/ /\ Goto("custom_properties")
                  /\ key_i' = 1
                  /\ orionNodes' = [orionNodes EXCEPT ![1].DNS = props.DNS]
       ELSE /\ Goto("custom_properties")
            /\ key_i' = 1
            /\ UNCHANGED <<calls, orionNodes>>
    /\ UNCHANGED <<suppression, params, now, node, ran, prev, orionVolumes>>
    /\ UNCHANGED <<props, changed, discovery_iter, sleeps, status_res, response, batch_id,
                   discovered_node, volumes_to_remove, vol_i, deleted>>

\* Mutant: the custom properties are set on an external node as well
PropagatesCustomProperties_always(pr) == TRUE

\* `if not props['External']:` before the custom properties
PropagatesCustomProperties(pr) == ~pr.External

\* One round of `for k in custom_properties.keys()`, entered only
\* `if not props['External']`
AddCustomProperty ==
    /\ pc = "custom_properties"
    /\ PropagatesCustomProperties(props)
    /\ key_i <= Len(params.custom_properties)
    /\ calls' = Append(calls, "update CustomProperties")
    /\ \/ Fail("Failed to add custom properties") /\ UNCHANGED <<changed, key_i>>
       \/ /\ Goto("custom_properties")
          /\ changed' = TRUE
          /\ key_i' = key_i + 1
    /\ UNCHANGED <<orionNodes, suppression, params, now, node, ran, prev, orionVolumes>>
    /\ UNCHANGED <<props, discovery_iter, sleeps, status_res, response, batch_id,
                   discovered_node, volumes_to_remove, vol_i, deleted>>

\* Mutant: exit_json hands control back to add_node
exit_json_ends_the_process_not == FALSE

\* module.exit_json raises SystemExit: the code after it is not run
exit_json_ends_the_process == TRUE

\* The remote calls once the lines after exit_json have run: `if
\* props['DiscoveryEngineID'] != props['EngineID']` the node is moved to its
\* final polling engine
RelocateEngine(pr, c) ==
    IF pr.DiscoveryEngineID # pr.EngineID THEN Append(c, "update EngineID") ELSE c

\* `node['changed'] = changed; module.exit_json(**node)`, and the engine
\* relocation that follows it in add_node
ExitAdd ==
    /\ pc = "custom_properties"
    /\ ~PropagatesCustomProperties(props) \/ key_i > Len(params.custom_properties)
    /\ pc' = "done"
    /\ result' = Result("exit_json", changed, FALSE, "")
    /\ node' = [changed |-> changed]
    /\ calls' = IF exit_json_ends_the_process THEN calls ELSE RelocateEngine(props, calls)
    /\ UNCHANGED <<orionNodes, suppression, params, now, ran, prev, orionVolumes>>
    /\ UNCHANGED addLocals

(***************************************************************************)
(* The add specification: one add, on a platform that has the node or not. *)
(***************************************************************************)
InitAdd ==
    /\ orionNodes \in {<< >>,
                       <<NodeRow(FALSE, Text(0, PlatformZone), Text(0, PlatformZone))>>}
    /\ suppression = NotSuppressed
    /\ pc = "idle"
    /\ params = NoParams
    /\ now = 0
    /\ node = Unbound
    /\ result = NoResult
    /\ calls = << >>
    /\ ran = ""
    /\ prev = NoPrev
    /\ orionVolumes = {}
    /\ FreshLocals

NextAdd ==
    \/ RunAdd
    \/ AddNode
    \/ ValidateFields
    \/ GetCredentialId
    \/ CreateCorePluginConfiguration
    \/ CreateInterfacesPluginConfiguration
    \/ StartDiscovery
    \/ PollStatus
    \/ ReadDiscoveryLog
    \/ ResolveNode
    \/ CorrectCaption
    \/ QueryDiscoveredObjects
    \/ RemoveVolume
    \/ SetDNS
    \/ AddCustomProperty
    \/ ExitAdd

SpecAdd == InitAdd /\ [][NextAdd]_vars

\* The add with its poll loop running on: the loop is sequential code, its
\* next round follows as soon as the sleep returns
SpecAddFair == SpecAdd /\ WF_vars(PollStatus)

(***************************************************************************)
(* Properties.                                                             *)
(***************************************************************************)
\* The invocation issued remote call c
Issued(c) == \E i \in DOMAIN calls : calls[i] = c

\* How many times it issued c
TimesIssued(c) == Cardinality({i \in DOMAIN calls : calls[i] = c})

\* A handler has returned and its Node Lookup found the node / found nothing
NodeFound == pc = "done" /\ node # Unbound /\ ~IsEmpty(node)
NodeMissing == pc = "done" /\ node = EmptyDict

\* Both bounds of the window were given
ExplicitWindow == Truthy(params.unmanage_from) /\ Truthy(params.unmanage_until)

\* The bounds the lookup read back from the platform print exactly as the
\* requested bounds do
WindowReported ==
    /\ node.unmanagefrom = isoformat(unmanage_from_dt(params, now))
    /\ node.unmanageuntil = isoformat(unmanage_until_dt(params, now))

\* The instant a datetime names, in seconds
Instant(d) == astimezone_utc(d).wall

\* A requested bound and the bound read back name different instants
WindowMoved ==
    \/ Instant(unmanage_from_dt(params, now)) # Instant(parse(node.unmanagefrom))
    \/ Instant(unmanage_until_dt(params, now)) # Instant(parse(node.unmanageuntil))

\* add_node has issued an update or a delete
CorrectionIssued ==
    \/ deleted # << >>
    \/ \E i \in DOMAIN calls :
          calls[i] \in {"update Caption", "delete volume", "update DNS",
                        "update CustomProperties"}

\* The answer examined last is a discovery log
LogRead == response.of = "Orion.DiscoveryLogs" /\ response.results # << >>

\* C1: in add, after the status poll, a discovery log whose Result is 0, 3, 6
\* or 7 ends the operation in failure with no update or delete issued, and a
\* log with any other Result is not failed by the classification: the
\* handler goes on to resolve the node.  This holds whatever the log's
\* ResultDescription, ErrorMessage and BatchID are.
C1_ResultCodeClassification ==
    [][ (pc = "read_log" /\ LogRead') =>
          IF response'.results[1].Result.n \in {0, 3, 6, 7}
          THEN pc' = "done" /\ result'.kind = "fail_json" /\ ~CorrectionIssued'
          ELSE pc' = "resolve" /\ result'.kind = "" ]_vars

\* C1 witness: a log with Result 3 and a batch id has failed the add, after
\* the discovery was started and polled
C1_Witness ==
    /\ LogRead
    /\ response.results[1].Result.n = 3
    /\ response.results[1].BatchID = "batch-1"
    /\ discovery_iter >= 1
    /\ pc = "done" /\ result.kind = "fail_json"

\* The volume filtering has run: the matches are collected and counted
VolumesCounted ==
    \/ response.of = "Orion.DiscoveryLogItems"
    \/ vol_i >= 1

\* C2: in add's volume filtering, with exactly 50 matches collected the
\* handler proceeds to the deletions; with 51 or more it ends in the
\* safety-limit failure and no volume is deleted; and no delete is issued
\* unless the cap test has passed.  (A match is an entry of
\* volumes_to_remove.)
C2_VolumeCap ==
    /\ (VolumesCounted /\ Len(volumes_to_remove) >= 51) =>
          /\ pc = "done" /\ result.kind = "fail_json"
          /\ result.msg = "Too many volumes to remove - aborting for safety"
          /\ deleted = << >> /\ ~Issued("delete volume")
          /\ vol_i = 0
    /\ (VolumesCounted /\ Len(volumes_to_remove) = 50) =>
          /\ vol_i >= 1
          /\ result.msg # "Too many volumes to remove - aborting for safety"
    /\ (deleted # << >> \/ Issued("delete volume")) =>
          (vol_i >= 1 /\ Len(volumes_to_remove) <= 50)

\* C2 witness: exactly 50 volumes matched, and the 50 were deleted
C2_Witness ==
    /\ Len(volumes_to_remove) = 50
    /\ Len(deleted) = 50
    /\ pc = "done" /\ result.kind = "exit_json" /\ result.changed

\* The platform reports the node unmanaged over the instants the request
\* names
ReportsRequestedWindow == node.unmanaged /\ ~WindowMoved

\* C3 (as claimed): unmanage called twice in a row on an existing node with
\* the same explicit unmanage_from and unmanage_until.  The first call, made
\* while the platform does not report that window for the node, invokes
\* Unmanage once and (the call answering) returns changed=true; the second,
\* the platform then reporting the node unmanaged over the first call's
\* window, returns changed=false and invokes no Unmanage.
C3_UnmanageTwiceIsIdempotent ==
    (pc = "done" /\ ran = "unmanage_node" /\ NodeFound /\ ExplicitWindow) =>
        /\ (prev = NoPrev /\ ~ReportsRequestedWindow) =>
              /\ TimesIssued("invoke Unmanage") = 1
              /\ result.kind # "fail_json" => (result.kind = "exit_json" /\ result.changed)
        /\ ( /\ prev.result.kind = "exit_json" /\ prev.result.changed
             /\ ReportsRequestedWindow ) =>
              /\ result.kind = "exit_json" /\ ~result.changed
              /\ ~Issued("invoke Unmanage")

\* C4: unmanage on an existing node is a no-op (changed=false, no Unmanage
\* invoked) only when the node is unmanaged and both requested bounds equal
\* the bounds read back exactly; when the node is not unmanaged, or a bound
\* prints differently or names another instant (one second is enough),
\* Unmanage is invoked once and, the call answering, changed=true returned.
C4_UnmanageNoOpOnlyWhenEqual ==
    (pc = "done" /\ ran = "unmanage_node" /\ NodeFound) =>
        /\ (result.kind = "exit_json" /\ ~result.changed) =>
              /\ ~Issued("invoke Unmanage")
              /\ node.unmanaged /\ WindowReported /\ ~WindowMoved
        /\ (~node.unmanaged \/ ~WindowReported \/ WindowMoved) =>
              /\ TimesIssued("invoke Unmanage") = 1
              /\ result.kind \in {"exit_json", "fail_json"}
              /\ result.kind = "exit_json" => result.changed

\* C4 witness: the node is unmanaged over [T, T+24h), [T, T+24h+1s) is
\* requested in the same zone, and Unmanage is invoked with changed=true
C4_Witness ==
    /\ pc = "done" /\ ran = "unmanage_node" /\ NodeFound /\ ExplicitWindow
    /\ node.unmanaged
    /\ node.unmanagefrom = isoformat(fromisoformat(params.unmanage_from))
    /\ node.unmanageuntil.tz = isoformat(fromisoformat(params.unmanage_until)).tz
    /\ node.unmanageuntil.wall = node.unmanagefrom.wall + Day
    /\ params.unmanage_until.wall = node.unmanageuntil.wall + 1
    /\ result.kind = "exit_json" /\ result.changed
    /\ TimesIssued("invoke Unmanage") = 1

\* C5 (as claimed): mute with neither bound given, on an existing node whose
\* reported suppression bounds are the default window (now, now + 24h),
\* returns changed=false and does not invoke SuppressAlerts.
C5_MuteDefaultWindowNoOp ==
    [][ ( /\ pc = "dispatch" /\ pc' = "done" /\ ran' = "mute_node" /\ NodeFound'
          /\ params.unmanage_from = NoneText /\ params.unmanage_until = NoneText
          /\ ~(result'.kind = "exception")
          /\ suppression.SuppressedFrom # NoneText
          /\ suppression.SuppressedUntil # NoneText
          /\ Instant(parse(suppression.SuppressedFrom)) = now'
          /\ Instant(parse(suppression.SuppressedUntil)) = now' + Day )
        => ( /\ result'.kind = "exit_json" /\ ~result'.changed
             /\ \A i \in DOMAIN calls' : calls'[i] # "invoke SuppressAlerts" ) ]_vars

\* C6: remove on a node the lookup does not find returns changed=false, not
\* a failure, and issues no delete; so does every repetition.
C6_RemoveAbsentIsNoOp ==
    (pc = "done" /\ ran = "remove_node" /\ NodeMissing) =>
        /\ result.kind = "exit_json" /\ ~result.changed
        /\ ~Issued("delete node")
        /\ orionNodes = << >> \/ NodeQuery(params, orionNodes) = << >>

\* C6 witness: remove found nothing, for the second time in a row
C6_Witness ==
    /\ pc = "done" /\ ran = "remove_node" /\ NodeMissing
    /\ prev.result.kind = "exit_json" /\ ~prev.result.changed
    /\ prev.calls = <<"query Orion.Nodes">>
    /\ result.kind = "exit_json" /\ ~result.changed

\* C7: when the lookup finds no node, unmanage fails and invokes no Unmanage,
\* mute returns a non-failure skip and invokes no SuppressAlerts; neither
\* reports changed=true.
C7_MissingNodeUnmanageFailsMuteSkips ==
    /\ (pc = "done" /\ ran = "unmanage_node" /\ NodeMissing) =>
          /\ result.kind = "fail_json" /\ ~result.changed
          /\ ~Issued("invoke Unmanage")
    /\ (pc = "done" /\ ran = "mute_node" /\ NodeMissing) =>
          /\ result.kind = "exit_json" /\ result.skipped /\ ~result.changed
          /\ ~Issued("invoke SuppressAlerts")

\* C7 witness: mute has skipped a node the lookup did not find
C7_Witness ==
    /\ pc = "done" /\ ran = "mute_node" /\ NodeMissing
    /\ result.kind = "exit_json" /\ result.skipped
    /\ calls = <<"query Orion.Nodes">>

\* C8: remanage invokes Remanage only when the node exists and is unmanaged;
\* on a missing node or a managed one it fails and invokes no Remanage.
C8_RemanageOnlyWhenUnmanaged ==
    (pc = "done" /\ ran = "remanage_node") =>
        /\ Issued("invoke Remanage") =>
              (NodeFound /\ node.unmanaged /\ TimesIssued("invoke Remanage") = 1)
        /\ (NodeMissing \/ (NodeFound /\ ~node.unmanaged)) =>
              (result.kind = "fail_json" /\ ~Issued("invoke Remanage"))
        /\ (NodeFound /\ node.unmanaged) => Issued("invoke Remanage")

\* C8 witness: remanage has failed on a node that is managed
C8_Witness ==
    /\ pc = "done" /\ ran = "remanage_node" /\ NodeFound /\ ~node.unmanaged
    /\ result.kind = "fail_json"
    /\ ~Issued("invoke Remanage")

\* C9: unmute on an existing node whose suppression state the platform
\* reports: with mode 0 it returns changed=false and invokes no
\* ResumeAlerts; with any other mode it invokes ResumeAlerts exactly once
\* and, the call answering, returns changed=true.
C9_UnmuteByMode ==
    [][ ( /\ pc = "dispatch" /\ pc' = "done" /\ ran' = "unmute_node" /\ NodeFound'
          /\ ~( /\ result'.kind = "exception"
                /\ calls'[Len(calls')] = "invoke GetAlertSuppressionState" ) )
        => IF suppression.SuppressionMode = 0
           THEN /\ result'.kind = "exit_json" /\ ~result'.changed
                /\ \A i \in DOMAIN calls' : calls'[i] # "invoke ResumeAlerts"
           ELSE /\ Cardinality({i \in DOMAIN calls' : calls'[i] = "invoke ResumeAlerts"}) = 1
                /\ \/ result'.kind = "exit_json" /\ result'.changed
                   \/ result'.kind = "exception" ]_vars

\* C9 witness: unmute has resumed the alerts of a suppressed node
C9_Witness ==
    /\ pc = "done" /\ ran = "unmute_node" /\ NodeFound
    /\ result.kind = "exit_json" /\ result.changed
    /\ TimesIssued("invoke ResumeAlerts") = 1
    /\ suppression = NotSuppressed

\* The handler the documentation promises for a state; for a state that was
\* not supplied, the documented default remanaged
DocumentedHandler(state) ==
    CASE state = "present" -> "add_node"
      [] state = "absent" -> "remove_node"
      [] state = "remanaged" -> "remanage_node"
      [] state = "unmanaged" -> "unmanage_node"
      [] state = "muted" -> "mute_node"
      [] state = "unmuted" -> "unmute_node"
      [] OTHER -> "remanage_node"

\* C10 (as claimed): an invocation that has orionsdk and whose connection
\* probe answers ends with exactly the handler of the requested state having
\* run, the remanage handler when no state was supplied, and with the result
\* that handler produced.
C10_DispatcherRunsTheHandler ==
    [][ ( /\ pc # "done" /\ pc' = "done"
          /\ result'.msg \notin {"orionsdk required for this module",
                                 "Failed to query Orion"} )
        => ( /\ ran' = DocumentedHandler(params'.state)
             /\ result'.kind # "none" ) ]_vars

\* The required fields of an add that the request leaves out: the address,
\* the credential name, and for a method other than external the node name
OmittedFields(p) ==
    (IF Falsy(p.ip_address) THEN {"ip_address"} ELSE {})
    \cup (IF Falsy(p.credential_name) THEN {"credential_name"} ELSE {})
    \cup (IF p.node_name \in {NoName, EmptyName} /\ p.polling_method # "external"
          THEN {"node_name"} ELSE {})

\* add_node has submitted a plugin configuration or a discovery job
Submitted ==
    \/ Issued("invoke CreateCorePluginConfiguration")
    \/ Issued("invoke CreateInterfacesPluginConfiguration")
    \/ Issued("invoke StartDiscovery")

\* C11 (as claimed): an add whose lookup found no node and whose request
\* leaves out exactly one required field (the address, the credential name,
\* or for a method other than external the node name) ends in a validation
\* failure, and submits no plugin configuration and no discovery job.
C11_OneMissingFieldFailsValidation ==
    ( /\ ran = "add_node" /\ node = EmptyDict /\ pc # "validate"
      /\ Cardinality(OmittedFields(params)) = 1 )
    => ( /\ pc = "done"
         /\ result.kind = "fail_json"
         /\ result.msg \in {"IP Address is required", "Node name is required",
                            "A credential name is required"}
         /\ ~Submitted )

\* The SNMP fields of a profile
SNMPFields == {"SNMPVersion", "AgentPort", "Allow64BitCounters"}

\* C12: in every profile the validator returns, External is true exactly
\* when the polling method is external; the profile of an external node has
\* ObjectSubType ICMP; and the SNMP fields (SNMPVersion, AgentPort,
\* Allow64BitCounters) are there, all three, exactly when ObjectSubType is
\* SNMP, and none of them otherwise.
C12_ProfileShape ==
    props # Unbound =>
        /\ props.External = (params.polling_method = "external")
        /\ params.polling_method = "external" => props.ObjectSubType = "ICMP"
        /\ IF props.ObjectSubType = "SNMP"
           THEN SNMPFields \subseteq DOMAIN props
           ELSE SNMPFields \cap DOMAIN props = {}

\* C12 witness: the validator has returned the profile of an external node,
\* which is polled by ICMP and has no SNMP field
C12_Witness ==
    /\ pc = "credential"
    /\ props # Unbound
    /\ params.polling_method = "external"
    /\ props.External
    /\ props.ObjectSubType = "ICMP"
    /\ SNMPFields \cap DOMAIN props = {}

\* The handlers of the lifecycle states
LifecycleHandlers ==
    {"remove_node", "remanage_node", "unmanage_node", "mute_node", "unmute_node"}

\* C13 (as claimed): a lifecycle handler ends with a result of its own
\* making, whichever of its remote calls fail, the node lookup and the read
\* of the suppression state included: a remote failure gives a failure with
\* a message, and none leaves the handler as an error nobody handled.
C13_RemoteFailureIsAFailureResult ==
    (pc = "done" /\ ran \in LifecycleHandlers) =>
        /\ result.kind \in {"exit_json", "fail_json"}
        /\ result.kind = "fail_json" => result.msg # ""

\* This step made a status query and got an answer
StatusAnswered == pc = "poll" /\ discovery_iter' = discovery_iter + 1

\* The status answer at hand reports the job Finished
ReportsFinished(res) == res.results # << >> /\ res.results[1].Status = 2

\* The add has ended in the poll's timeout
TimedOut(res) ==
    res.kind = "fail_json"
    /\ res.msg = "Timeout while waiting for node discovery job to terminate"

\* C14 (as claimed): when one of the up to 60 status queries is answered
\* Finished (2), the polling stops and the add goes on to read the outcome
\* log; the timeout is raised only when the 60 queries are used up and none
\* was answered Finished.
C14_FinishedStopsThePoll ==
    [][ StatusAnswered =>
          /\ ReportsFinished(status_res') => (pc' = "read_log" /\ ~TimedOut(result'))
          /\ TimedOut(result') =>
                ( /\ discovery_iter' = DISCOVERY_STATUS_CHECK_RETRIES
                  /\ ~ReportsFinished(status_res') ) ]_vars

\* The ways the poll loop is left, of which this step takes those listed
PollExits ==
    { e \in {"log", "timeout", "query failure"} :
        \/ e = "log" /\ pc' = "read_log"
        \/ e = "timeout" /\ pc' = "done" /\ TimedOut(result')
        \/ e = "query failure" /\ pc' = "done" /\ result'.kind = "fail_json"
              /\ result'.msg = "Failed to query node discovery status" }

\* C15: the status poll always terminates.  It makes at most 60 status
\* queries and at most 60 waits of 3 seconds (180 seconds in all), and it is
\* left in exactly one of three ways: to read the outcome log, by the
\* timeout failure, or by the failure of a status query.
C15_PollTerminates ==
    /\ [](/\ discovery_iter <= DISCOVERY_STATUS_CHECK_RETRIES
          /\ sleeps <= DISCOVERY_STATUS_CHECK_RETRIES
          /\ sleeps * DISCOVERY_RETRY_SLEEP_SECS <= 180)
    /\ [][ (pc = "poll" /\ pc' # "poll") => Cardinality(PollExits) = 1 ]_vars
    /\ (pc = "poll") ~> (pc \in {"read_log", "done"})

\* C15 witness: the poll has used up its 60 queries, slept 59 times, and
\* ended in the timeout
C15_Witness ==
    /\ pc = "done"
    /\ discovery_iter = DISCOVERY_STATUS_CHECK_RETRIES
    /\ sleeps = DISCOVERY_STATUS_CHECK_RETRIES - 1
    /\ TimedOut(result)

\* The status answer at hand has no rows
ReportsNothing(res) == res.of = "Orion.DiscoveryProfiles" /\ res.results = << >>

\* C16 (as claimed): once a status query has returned no rows the loop is
\* over, and the add does not end in success: no such run returns success
\* with changed=true.
C16_EmptyStatusNeverSucceeds ==
    ReportsNothing(status_res) =>
        /\ pc # "poll"
        /\ ~(pc = "done" /\ result.kind = "exit_json" /\ result.changed)

\* C16 (amended): a status query that returns no rows ends the loop just as
\* Finished does: the add goes on to read the outcome log (on the 60th
\* query it ends in the timeout instead), and what follows decides the
\* result, which can be success with changed=true.
C16_EmptyStatusEndsThePoll ==
    [][ (StatusAnswered /\ ReportsNothing(status_res')) =>
          IF discovery_iter' < DISCOVERY_STATUS_CHECK_RETRIES
          THEN pc' = "read_log" /\ result'.kind = ""
          ELSE pc' = "done" /\ TimedOut(result') ]_vars

\* C16 witness: an add whose poll ended on a status answer without rows has
\* returned success with changed=true
C16_Witness ==
    /\ ReportsNothing(status_res)
    /\ pc = "done"
    /\ result.kind = "exit_json"
    /\ result.changed
    /\ Issued("query Orion.DiscoveryLogs")

\* This step is the validation of a request that names no discovery engine
\* of its own: the name is left out or is the polling engine's
NoDiscoveryEngineOfItsOwn ==
    /\ pc = "validate"
    /\ \/ params.discovery_polling_engine_name = None
       \/ params.discovery_polling_engine_name = params.polling_engine_name

\* C17 (as claimed): when the request names no discovery engine of its own,
\* the profile's DiscoveryEngineID equals its EngineID, whether a polling
\* engine name is given (one engine lookup, or the failure of that lookup)
\* or not (no lookup, EngineID 1); the discovery engine is looked up
\* separately only when a distinct name is given for it.
C17_DiscoveryEngineDefaults ==
    [][ NoDiscoveryEngineOfItsOwn =>
          LET lookups == Cardinality({i \in DOMAIN calls' :
                                         calls'[i] = "query Orion.Engines"})
          IN  /\ props' # Unbound => props'.DiscoveryEngineID = props'.EngineID
              /\ lookups = IF result'.msg \in {"IP Address is required",
                                               "Node name is required",
                                               "A credential name is required"}
                              \/ result'.kind = "exception"
                              \/ Falsy(params.polling_engine_name)
                           THEN 0 ELSE 1
              /\ (props' # Unbound /\ Falsy(params.polling_engine_name)) =>
                    props'.EngineID = 1 ]_vars

\* This step asked for the discovered node and got an answer
NodesAnswered == pc = "resolve" /\ response'.of = "Orion.DiscoveredNodes"

\* C18 (as claimed): the discovered node is resolved only when the lookup
\* returns exactly one record; with no record or with more than one the add
\* ends in failure, with no update and no delete issued after the discovery.
C18_ExactlyOneDiscoveredNode ==
    [][ NodesAnswered =>
          IF Len(response'.results) = 1
          THEN pc' = "caption" /\ discovered_node' = response'.results[1]
          ELSE /\ pc' = "done" /\ result'.kind = "fail_json"
               /\ discovered_node' = Unbound
               /\ ~CorrectionIssued' ]_vars

\* The place of a remote call among the corrections that follow discovery:
\* the caption rename, the volume deletions, the DNS update, the custom
\* properties; 0 for any other call
CorrectionRank(c) ==
    CASE c = "update Caption" -> 1
      [] c \in {"query Orion.Volumes", "delete volume"} -> 2
      [] c = "update DNS" -> 3
      [] c = "update CustomProperties" -> 4
      [] OTHER -> 0

\* C19: in add no update and no delete is issued before the discovery
\* outcome has been read and classified a success and the discovered node
\* resolved; the corrections are issued in the order caption rename, volume
\* deletions, DNS update, custom-property updates (the DNS update only once
\* the removal loop is through); and after a fatal failure no further remote
\* call, update or delete is made.
C19_CorrectionsInOrder ==
    /\ [](/\ CorrectionIssued =>
                /\ discovered_node # Unbound
                /\ \E l, r \in DOMAIN calls :
                      /\ calls[l] = "query Orion.DiscoveryLogs"
                      /\ calls[r] = "query Orion.DiscoveredNodes"
                      /\ l < r
                      /\ \A i \in DOMAIN calls : CorrectionRank(calls[i]) > 0 => r < i
          /\ \A i, j \in DOMAIN calls :
                (i < j /\ CorrectionRank(calls[i]) > 0 /\ CorrectionRank(calls[j]) > 0)
                => CorrectionRank(calls[i]) <= CorrectionRank(calls[j])
          /\ deleted # << >> => Issued("delete volume")
          /\ (Issued("update DNS") \/ Issued("update CustomProperties"))
                => vol_i > Len(volumes_to_remove)
          /\ result.kind \in {"fail_json", "exception"} => pc = "done")
    /\ [][ result.kind \in {"fail_json", "exception"}
           => UNCHANGED <<calls, deleted, orionNodes, orionVolumes>> ]_vars

\* C19 witness: an add has renamed the node, deleted a volume, set the DNS
\* name and a custom property, in that order, and returned success
C19_Witness ==
    /\ pc = "done"
    /\ result.kind = "exit_json"
    /\ \E a, b, c, e \in DOMAIN calls :
          /\ a < b /\ b < c /\ c < e
          /\ calls[a] = "update Caption"
          /\ calls[b] = "delete volume"
          /\ calls[c] = "update DNS"
          /\ calls[e] = "update CustomProperties"

\* This step looked a volume's Uri up and got an answer
VolumeAnswered ==
    /\ pc = "volumes"
    /\ vol_i <= Len(volumes_to_remove)
    /\ result'.msg # "Failed to query Uri for volume to remove"

\* The answer to the Uri lookup holds no Uri: it has no row, or a row whose
\* Uri is null
NoUri(res) == res.results = << >> \/ res.results[1].Uri = << >>

\* C20 (as claimed): during the removal of the matched volumes, a volume
\* whose Uri lookup yields no Uri is passed over without a word (no delete
\* for it, the loop goes on to the next volume); a delete that fails ends
\* the add in failure, and no delete follows it.
C20_VolumeWithoutUriIsSkipped ==
    [][ VolumeAnswered =>
          IF NoUri(response')
          THEN /\ pc' = "volumes" /\ vol_i' = vol_i + 1
               /\ result'.kind = ""
               /\ deleted' = deleted /\ orionVolumes' = orionVolumes
          ELSE /\ deleted' = Append(deleted, volumes_to_remove[vol_i].NetObjectID)
               /\ \/ pc' = "volumes" /\ vol_i' = vol_i + 1
                  \/ /\ pc' = "done" /\ result'.kind = "fail_json"
                     /\ result'.msg = "Failed to delete volume" ]_vars

\* The add has ended in the failure of a custom-property update
CustomPropertyFailed ==
    pc = "done" /\ result.kind = "fail_json"
    /\ result.msg = "Failed to add custom properties"

\* C21: in add, custom-property updates are issued only for a profile that
\* is not external, never for an external one; for a profile that is not
\* external an add that succeeds has issued one update for each key the
\* caller supplied; and the first update that fails ends the add in failure,
\* with no update issued for the keys after it.
C21_CustomPropertiesPerKey ==
    props # Unbound =>
        /\ props.External => ~Issued("update CustomProperties")
        /\ TimesIssued("update CustomProperties") <= Len(params.custom_properties)
        /\ (pc = "done" /\ result.kind = "exit_json" /\ ~props.External) =>
              TimesIssued("update CustomProperties") = Len(params.custom_properties)
        /\ CustomPropertyFailed =>
              /\ TimesIssued("update CustomProperties") = key_i
              /\ key_i <= Len(params.custom_properties)

\* C21 witness: of two custom properties the first update has failed, and
\* the second was never issued
C21_Witness ==
    /\ CustomPropertyFailed
    /\ ~props.External
    /\ Len(params.custom_properties) = 2
    /\ TimesIssued("update CustomProperties") = 1

\* The profile's discovery engine is not its final polling engine
EnginesDiffer == props # Unbound /\ props.DiscoveryEngineID # props.EngineID

\* C22: in no run of add is the engine relocation (the update that sets
\* EngineID on the node) issued, a run that succeeds with a discovery engine
\* other than the final polling engine included: the result is returned
\* before the step is reached.
C22_EngineRelocationNeverIssued == ~Issued("update EngineID")

\* C22 witness: an add discovered by engine 2 for a node polled by engine 1
\* has returned success, without the relocation
C22_Witness ==
    /\ pc = "done"
    /\ result.kind = "exit_json" /\ result.changed
    /\ EnginesDiffer
    /\ props.EngineID = 1 /\ props.DiscoveryEngineID = 2
    /\ ~Issued("update EngineID")

\* The Node Lookup of this run resolved the target to an inventory record
LookupResolved == "uri" \in DOMAIN node

\* C23: an add whose Node Lookup resolves the target to an inventory record
\* returns changed=false with that record's facts and makes no remote call
\* but the lookup's query: no invoke, no update, no delete, no discovery
\* job, and no validation of the other parameters, valid or not.
C23_AddOnExistingNodeIsNoOp ==
    (ran = "add_node" /\ LookupResolved) =>
        /\ pc = "done"
        /\ result = Result("exit_json", FALSE, FALSE, "")
        /\ calls = <<"query Orion.Nodes">>
        /\ ~Submitted /\ ~CorrectionIssued
        /\ props = Unbound
        /\ orionNodes # << >>
        /\ node = NodeDict(orionNodes)

\* C23 witness: an add that names an existing node by its address, and
\* leaves out the node name and the credential validation would require,
\* has returned changed=false
C23_Witness ==
    /\ pc = "done" /\ ran = "add_node"
    /\ LookupResolved
    /\ params.node_name = NoName
    /\ params.credential_name = None
    /\ result.kind = "exit_json" /\ ~result.changed

\* This step is a mute that found the node, on a platform that reports no
\* suppression of it (no SuppressedFrom, no SuppressedUntil) and answers the
\* read of the suppression state
MuteOfUnsuppressed ==
    /\ pc = "dispatch" /\ pc' = "done" /\ ran' = "mute_node" /\ NodeFound'
    /\ suppression.SuppressedFrom = NoneText
    /\ suppression.SuppressedUntil = NoneText
    /\ result'.kind # "exception"

\* C24 (as claimed): mute on an existing node that has no alert suppression
\* invokes SuppressAlerts, once, and (the call answering) returns
\* changed=true, also when unmanage_from and unmanage_until are both left
\* out; it never returns changed=false for such a node.
C24_MuteOfUnsuppressedNodeMutes ==
    [][ MuteOfUnsuppressed =>
          /\ Cardinality({i \in DOMAIN calls' : calls'[i] = "invoke SuppressAlerts"}) = 1
          /\ \/ result'.kind = "exit_json" /\ result'.changed
             \/ result'.kind = "fail_json" /\ result'.msg = "Failed to mute" ]_vars

\* The add went through discovery and has returned success
AddSucceeded ==
    /\ pc = "done" /\ ran = "add_node"
    /\ result.kind = "exit_json"
    /\ props # Unbound /\ discovered_node # Unbound

\* The inventory's caption of the node the add resolved
InventoryCaption ==
    LET found == SelectSeq(orionNodes, LAMBDA r : r.NodeID = discovered_node.NodeID)
    IN  found[1].Caption

\* C25 (as claimed): after an add that ends in success the node's caption
\* in the inventory is the profile's caption, the first label of the node
\* name, whether discovery gave it that caption or the rename was issued.
C25_CaptionIsTheFirstLabel ==
    AddSucceeded =>
        /\ props.Caption = <<Head(params.node_name)>>
        /\ InventoryCaption = props.Caption

\* The discovered volumes entered in volumes_to_remove
VolumesMatched == {volumes_to_remove[i].NetObjectID : i \in DOMAIN volumes_to_remove}

\* C26 (as claimed): in add's volume filtering a discovered volume is
\* entered once at most among the volumes to remove, however many of the
\* filters its display name matches: it counts once toward the cap of 50,
\* so that the safety failure means more than 50 volumes matched, and it is
\* submitted for deletion once at most.
C26_VolumeCountedOnce ==
    VolumesCounted =>
        /\ \A i, j \in DOMAIN volumes_to_remove :
              volumes_to_remove[i].NetObjectID = volumes_to_remove[j].NetObjectID
              => i = j
        /\ result.msg = "Too many volumes to remove - aborting for safety"
              => Cardinality(VolumesMatched) > 50
        /\ \A i, j \in DOMAIN deleted : deleted[i] = deleted[j] => i = j

=============================================================================
